---- MODULE Spec2Model ----
(***************************************************************************)
(* Cross-tile flood fill of foolusion/dsa-challenge: the single-surface    *)
(* fill, the tile fill with its edge sets, the WorkItems coordination      *)
(* object (put / get / task_done / join), the worker loop and the two      *)
(* drivers world_fill and concurrent_world_fill.                           *)
(***************************************************************************)
EXTENDS Integers, Sequences, FiniteSets, TLC

\* ------------------------------------------------------------------------
\* Bounds of the model
\* ------------------------------------------------------------------------
\* tile width and height in pixels (w, h of the drivers, scaled down)
W == 4
H == 4
\* number of worker threads started by concurrent_world_fill
NumWorkers == 2
\* longest work stack the sequential driver is followed to
MaxStack == 5
\* width of the surface given to the single-surface fill, which has two rows
FillW == 3
\* number of put calls the clients of the WorkItems harness make
MaxPuts == 3

Workers == 1..NumWorkers
Pos == (0..(W - 1)) \X (0..(H - 1))
Colors == {"black", "red", "white", "blue"}

\* ------------------------------------------------------------------------
\* Python containers
\* ------------------------------------------------------------------------
\* a dict with insertion order is a sequence of <<key, value>> pairs
DictKeys(d) == {d[i][1] : i \in 1..Len(d)}
DictIndex(d, k) == CHOOSE i \in 1..Len(d) : d[i][1] = k
DictGet(d, k, default) == IF k \in DictKeys(d) THEN d[DictIndex(d, k)][2] ELSE default
DictSet(d, k, v) ==
    IF k \in DictKeys(d) THEN [d EXCEPT ![DictIndex(d, k)] = <<k, v>>]
    ELSE Append(d, <<k, v>>)

\* a dict whose order is never observed is a function on its key set
MapSet(m, k, v) == [x \in (DOMAIN m) \cup {k} |-> IF x = k THEN v ELSE m[x]]
MapPop(m, k) == [x \in (DOMAIN m) \ {k} |-> m[x]]
EmptyMap == [x \in {} |-> {}]

\* ------------------------------------------------------------------------
\* fill and tile_fill
\* ------------------------------------------------------------------------
\* (variant: the four side neighbours only)
neighbors_4(px, py, w, h) ==
    {n \in ((px - 1)..(px + 1)) \X ((py - 1)..(py + 1)) :
        /\ 0 <= n[1] /\ n[1] < w
        /\ 0 <= n[2] /\ n[2] < h
        /\ (n[1] = px) # (n[2] = py)}

neighbors(px, py, w, h) ==
    {n \in ((px - 1)..(px + 1)) \X ((py - 1)..(py + 1)) :
        /\ 0 <= n[1] /\ n[1] < w
        /\ 0 <= n[2] /\ n[2] < h
        /\ ~(n[1] = px /\ n[2] = py)}

\* (variant: neighbours enter the frontier without the visited test)
fill_step_revisit(st, p, color, w, h) ==
    LET vis == st.visited \cup {p}
        fr  == st.frontier \ {p}
    IN  IF st.pixels[p] # st.start_color
        THEN [st EXCEPT !.visited = vis, !.frontier = fr]
        ELSE [st EXCEPT !.visited = vis,
                        !.pixels = [st.pixels EXCEPT ![p] = color],
                        !.frontier = fr \cup neighbors(p[1], p[2], w, h)]

\* one iteration of the while loop of fill, popping p from the frontier
fill_step(st, p, color, w, h) ==
    LET vis == st.visited \cup {p}
        fr  == st.frontier \ {p}
    IN  IF st.pixels[p] # st.start_color
        THEN [st EXCEPT !.visited = vis, !.frontier = fr]
        ELSE [st EXCEPT !.visited = vis,
                        !.pixels = [st.pixels EXCEPT ![p] = color],
                        !.frontier = fr \cup (neighbors(p[1], p[2], w, h) \ vis)]

Edges == [left |-> {}, top |-> {}, right |-> {}, bottom |-> {}]

\* (variant: the right and bottom borders tested one pixel too far)
add_edge_off_by_one(edges, px, py, w, h) ==
    IF px = 0 THEN [edges EXCEPT !.left = @ \cup {<<px, py>>}]
    ELSE IF py = 0 THEN [edges EXCEPT !.top = @ \cup {<<px, py>>}]
    ELSE IF px = w THEN [edges EXCEPT !.right = @ \cup {<<px, py>>}]
    ELSE IF py = h THEN [edges EXCEPT !.bottom = @ \cup {<<px, py>>}]
    ELSE edges

\* (variant: the top border tested before the left border)
add_edge_top_first(edges, px, py, w, h) ==
    IF py = 0 THEN [edges EXCEPT !.top = @ \cup {<<px, py>>}]
    ELSE IF px = 0 THEN [edges EXCEPT !.left = @ \cup {<<px, py>>}]
    ELSE IF px = w - 1 THEN [edges EXCEPT !.right = @ \cup {<<px, py>>}]
    ELSE IF py = h - 1 THEN [edges EXCEPT !.bottom = @ \cup {<<px, py>>}]
    ELSE edges

\* the if / elif chain that files a changed pixel under one edge
add_edge(edges, px, py, w, h) ==
    IF px = 0 THEN [edges EXCEPT !.left = @ \cup {<<px, py>>}]
    ELSE IF py = 0 THEN [edges EXCEPT !.top = @ \cup {<<px, py>>}]
    ELSE IF px = w - 1 THEN [edges EXCEPT !.right = @ \cup {<<px, py>>}]
    ELSE IF py = h - 1 THEN [edges EXCEPT !.bottom = @ \cup {<<px, py>>}]
    ELSE edges

\* one iteration of the while loop of tile_fill, popping p from the frontier
tile_fill_step(st, p, from_color, to_color, w, h) ==
    LET vis == st.visited \cup {p}
        fr  == st.frontier \ {p}
    IN  IF st.pixels[p] # from_color
        THEN [st EXCEPT !.visited = vis, !.frontier = fr]
        ELSE [pixels   |-> [st.pixels EXCEPT ![p] = to_color],
              edges    |-> add_edge(st.edges, p[1], p[2], w, h),
              visited  |-> vis,
              frontier |-> fr \cup (neighbors(p[1], p[2], w, h) \ vis)]

RECURSIVE tile_fill_loop(_, _, _, _, _)
tile_fill_loop(st, from_color, to_color, w, h) ==
    IF st.frontier = {} THEN st
    ELSE \* (the state after the iteration is bound to s as a value, so that
         \* it is computed once)
         CHOOSE r \in {tile_fill_loop(s, from_color, to_color, w, h) :
                        s \in {tile_fill_step(st, CHOOSE p \in st.frontier : TRUE,
                                              from_color, to_color, w, h)}} : TRUE

\* tile_fill(im, tile_positions, from_color, to_color): the surface after
\* the call and the returned edges
tile_fill(im, tile_positions, from_color, to_color) ==
    LET r == tile_fill_loop([pixels |-> im, edges |-> Edges, visited |-> {},
                             frontier |-> tile_positions],
                            from_color, to_color, W, H)
    IN  [pixels |-> r.pixels, edges |-> r.edges]

\* (variant: the right neighbour addressed one tile past the grid)
follow_ups_unguarded(edges, fx, fy, from_color, to_color, fw, fh, w, h) ==
    (IF edges.left # {} /\ fx > 0
        THEN << <<(<<fx - 1, fy>>), <<{<<w - 1, p[2]>> : p \in edges.left}, from_color, to_color>> >> >>
        ELSE << >>)
    \o
    (IF edges.top # {} /\ fy > 0
        THEN << <<(<<fx, fy - 1>>), <<{<<p[1], h - 1>> : p \in edges.top}, from_color, to_color>> >> >>
        ELSE << >>)
    \o
    (IF edges.right # {} /\ fx + 1 <= fw
        THEN << <<(<<fx + 1, fy>>), <<{<<0, p[2]>> : p \in edges.right}, from_color, to_color>> >> >>
        ELSE << >>)
    \o
    (IF edges.bottom # {} /\ fy + 1 < fh
        THEN << <<(<<fx, fy + 1>>), <<{<<p[1], 0>> : p \in edges.bottom}, from_color, to_color>> >> >>
        ELSE << >>)

\* the four conditional put / append calls that follow a tile_fill, in
\* program order, as <<tile, <<seeds, from_color, to_color>>>>
follow_ups(edges, fx, fy, from_color, to_color, fw, fh, w, h) ==
    (IF edges.left # {} /\ fx > 0
        THEN << <<(<<fx - 1, fy>>), <<{<<w - 1, p[2]>> : p \in edges.left}, from_color, to_color>> >> >>
        ELSE << >>)
    \o
    (IF edges.top # {} /\ fy > 0
        THEN << <<(<<fx, fy - 1>>), <<{<<p[1], h - 1>> : p \in edges.top}, from_color, to_color>> >> >>
        ELSE << >>)
    \o
    (IF edges.right # {} /\ fx + 1 < fw
        THEN << <<(<<fx + 1, fy>>), <<{<<0, p[2]>> : p \in edges.right}, from_color, to_color>> >> >>
        ELSE << >>)
    \o
    (IF edges.bottom # {} /\ fy + 1 < fh
        THEN << <<(<<fx, fy + 1>>), <<{<<p[1], 0>> : p \in edges.bottom}, from_color, to_color>> >> >>
        ELSE << >>)

\* ------------------------------------------------------------------------
\* Worlds and fill requests the drivers are run on
\* ------------------------------------------------------------------------
Grid(fw, fh) == (0..(fw - 1)) \X (0..(fh - 1))
Plain(c) == [p \in Pos |-> c]
\* a tile with one full-height column of another color
Barred(c, x, bar) == [p \in Pos |-> IF p[1] = x THEN bar ELSE c]

\* fw, fh : the tile grid;  world : the stored tiles;  fills : the list of
\* (tile, position, to_color) given to world_fill / concurrent_world_fill
Scenarios == <<
    \* 1: one fill from the inner corner of tile (0,0) of a 2 x 2 world
    [fw |-> 2, fh |-> 2,
     world |-> [t \in Grid(2, 2) |-> Plain("black")],
     fills |-> << <<(<<0, 0>>), (<<W - 1, H - 1>>), "red">> >>],
    \* 2: a fill with the color its seed already has
    [fw |-> 2, fh |-> 1,
     world |-> [t \in Grid(2, 1) |-> Plain("black")],
     fills |-> << <<(<<0, 0>>), (<<W - 1, H - 1>>), "black">> >>],
    \* 3: two fills that exchange the colors of two neighbouring regions
    [fw |-> 2, fh |-> 1,
     world |-> [t \in Grid(2, 1) |-> IF t[1] = 0 THEN Plain("black") ELSE Plain("red")],
     fills |-> << <<(<<0, 0>>), (<<0, 0>>), "red">>,
                  <<(<<1, 0>>), (<<0, 0>>), "black">> >>],
    \* 4: two fills in tiles that do not touch; their regions meet the
    \*    two sides of a bar inside the middle tile
    [fw |-> 3, fh |-> 1,
     world |-> [t \in Grid(3, 1) |-> IF t[1] = 1 THEN Barred("white", W \div 2, "black")
                                      ELSE Plain("white")],
     fills |-> << <<(<<0, 0>>), (<<0, 0>>), "red">>,
                  <<(<<2, 0>>), (<<W - 1, 0>>), "blue">> >>],
    \* 5: two fills of one region from two seeds of the same tile
    [fw |-> 1, fh |-> 2,
     world |-> [t \in Grid(1, 2) |-> Barred("white", W \div 2, "black")],
     fills |-> << <<(<<0, 0>>), (<<0, 0>>), "blue">>,
                  <<(<<0, 0>>), (<<W - 1, 0>>), "blue">> >>],
    \* 6: two fills of one region of one tile, with different colors
    [fw |-> 1, fh |-> 1,
     world |-> [t \in Grid(1, 1) |-> Plain("white")],
     fills |-> << <<(<<0, 0>>), (<<0, 0>>), "blue">>,
                  <<(<<0, 0>>), (<<W - 1, H - 1>>), "red">> >>],
    \* 7: one fill of a region that is the first column of the world
    [fw |-> 1, fh |-> 2,
     world |-> [t \in Grid(1, 2) |-> Barred("black", 0, "white")],
     fills |-> << <<(<<0, 0>>), (<<0, 0>>), "red">> >>]
  >>

VARIABLES
    scn,              \* the scenario the driver runs (index of Scenarios)
    mode,             \* "conc": concurrent_world_fill, "seq": world_fill
    tiles,            \* the stored tile surfaces (tile_{fx}_{fy}.png)
    data,             \* WorkItems.data
    processing,       \* WorkItems.processing
    unfinished_tasks, \* WorkItems.unfinished_tasks
    pc,               \* where each Worker thread is
    f,                \* the tile a worker got (NoTile after its task_done)
    wk,               \* what is left of the work dict a worker got
    im,               \* the surface a worker has loaded
    todo,             \* the put calls left after the worker's last tile_fill
    dpc,              \* where the driver thread is
    di,               \* index of the driver's current fill request
    dfrom,            \* from_color read for the current fill request
    work_queue,       \* world_fill: the work stack
    img_map,          \* world_fill: the opened surfaces
    fst,              \* fill: pixels, visited, frontier, start_color
    fargs,            \* fill: the position and color arguments (and, as history,
                      \* the seed's 8-connected component in the surface given)
    fpc,              \* fill: "run", "returned"
    fcalls,           \* fill: the surface before the first call and after each call
    batch,            \* history: per tile, the puts since the tile was last got
    gotBatch,         \* history: per worker, the puts its get answered
    nputs,            \* history: number of harness put calls so far
    tst,              \* tile_fill: pixels, edges, visited, frontier
    targs,            \* tile_fill: im, tile_positions, from_color, to_color
    tpc,              \* tile_fill: "run", "returned", "raised"
    tdlog,            \* history: the last task_done call made out of turn
    latest            \* history: per tile, the surface its last tile_fill left

wiVars     == <<data, processing, unfinished_tasks>>
workerVars == <<pc, f, wk, im, todo>>
driverVars == <<dpc, di, dfrom>>
seqVars    == <<work_queue, img_map>>
worldVars  == <<scn, mode>>
fillVars   == <<fst, fargs, fpc, fcalls>>
histVars   == <<batch, gotBatch, nputs>>
tileVars   == <<tst, targs, tpc>>
vars == <<scn, mode, tiles, data, processing, unfinished_tasks, pc, f, wk, im,
          todo, dpc, di, dfrom, work_queue, img_map, fst, fargs, fpc, fcalls,
          batch, gotBatch, nputs, tst, targs, tpc, tdlog, latest>>

fw == Scenarios[scn].fw
fh == Scenarios[scn].fh
fills == Scenarios[scn].fills
NoTile == <<-1, -1>>
NoImage == << >>

\* ------------------------------------------------------------------------
\* WorkItems
\* ------------------------------------------------------------------------
\* (variant: the seeds put replace the pending seeds of the color pair)
put_data_overwrite(d, path, work) ==
    IF path \notin DOMAIN d
    THEN MapSet(d, path, << <<(<<work[2], work[3]>>), work[1]>> >>)
    ELSE MapSet(d, path, DictSet(d[path], <<work[2], work[3]>>, work[1]))

\* (variant: the pending work of a tile is not keyed by the color pair)
put_data_unkeyed(d, path, work) ==
    IF path \notin DOMAIN d
    THEN MapSet(d, path, << <<(<<work[2], work[3]>>), work[1]>> >>)
    ELSE MapSet(d, path, DictSet(d[path], d[path][1][1], d[path][1][2] \cup work[1]))

\* put: the new value of self.data;  work = <<seeds, from_color, to_color>>
put_data(d, path, work) ==
    IF path \notin DOMAIN d
    THEN MapSet(d, path, << <<(<<work[2], work[3]>>), work[1]>> >>)
    ELSE LET w == d[path]
             s == DictGet(w, <<work[2], work[3]>>, {})
         IN  MapSet(d, path, DictSet(w, <<work[2], work[3]>>, s \cup work[1]))

\* (variant: only a put into an empty data counts a new tile)
put_unfinished_if_empty(d, u, path) == IF DOMAIN d = {} THEN u + 1 ELSE u

\* (variant: a tile that is in processing does not count again)
put_unfinished_unless_held(d, u, path) ==
    IF path \notin DOMAIN d /\ path \notin processing THEN u + 1 ELSE u

\* put: the new value of self.unfinished_tasks
put_unfinished(d, u, path) == IF path \notin DOMAIN d THEN u + 1 ELSE u

\* (variant: tiles in processing are not left out)
get_keys_all(d, proc) == DOMAIN d

\* get: the keys a tile is popped from
get_keys(d, proc) == (DOMAIN d) \ proc

\* (variant: the work is read but not removed)
get_pop_keep(d, k) == d

\* get: self.data after self.data.pop(k)
get_pop(d, k) == MapPop(d, k)

\* not_empty.notify(): every way of waking one waiting worker.  A worker
\* waits in the first or in the second loop of get; since empty data has no
\* key outside processing, the test of the second loop decides alone
\* whether a woken worker waits again, and one "wait" and one "woken"
\* position stand for both loops.
Waiting(p) == {w \in Workers : p[w] = "wait"}
\* (variant: the notify of put wakes no one)
notify_none(p) == {p}

\* not_empty.notify(): the pc arrays it can leave, one waiter woken
notify(p) ==
    IF Waiting(p) = {} THEN {p}
    ELSE {[p EXCEPT ![w] = "woken"] : w \in Waiting(p)}

\* all_tasks_done.notify_all()
notify_all(d) == IF d = "join_wait" THEN "join_woken" ELSE d

\* WorkItems.put, called by thread `self' (0: the driver) which then
\* continues at `next'
put(self, path, work, next) ==
    /\ unfinished_tasks' = put_unfinished(data, unfinished_tasks, path)
    /\ data' = put_data(data, path, work)
    /\ \E np \in notify(pc) :
          pc' = IF self \in Workers THEN [np EXCEPT ![self] = next] ELSE np
    /\ UNCHANGED processing

\* WorkItems.get, first loop: nothing in data
GetWait1(self) ==
    /\ pc[self] \in {"get", "woken"}
    /\ DOMAIN data = {}
    /\ pc' = [pc EXCEPT ![self] = "wait"]
    /\ UNCHANGED <<wiVars, f, wk, im, todo>>

\* WorkItems.get, second loop: every pending tile is being processed
GetWait2(self) ==
    /\ pc[self] \in {"get", "woken"}
    /\ DOMAIN data # {}
    /\ get_keys(data, processing) = {}
    /\ pc' = [pc EXCEPT ![self] = "wait"]
    /\ UNCHANGED <<wiVars, f, wk, im, todo>>

\* WorkItems.get: pop a tile and its work, mark the tile as processing
GetClaim(self) ==
    /\ pc[self] \in {"get", "woken"}
    /\ \E k \in get_keys(data, processing) :
          /\ wk' = [wk EXCEPT ![self] = data[k]]
          /\ data' = get_pop(data, k)
          /\ processing' = processing \cup {k}
          /\ f' = [f EXCEPT ![self] = k]
    /\ pc' = [pc EXCEPT ![self] = "fill"]
    /\ UNCHANGED <<unfinished_tasks, im, todo>>

\* task_done: unfinished = self.unfinished_tasks - 1
task_done_unfinished(u) == u - 1

\* (variant: the tile is discarded from processing, never missed)
task_done_missing_never(proc, t) == FALSE

\* task_done: self.processing.remove(f) raises KeyError
task_done_missing(proc, t) == t \notin proc

\* the exception WorkItems.task_done(t) ends with, or "none"
task_done_raises(t) ==
    IF task_done_missing(processing, t) THEN "KeyError"
    ELSE IF task_done_unfinished(unfinished_tasks) < 0 THEN "ValueError"
    ELSE "none"

\* what WorkItems.task_done(t) does to the WorkItems and to the thread in join
task_done_state(t) ==
    IF task_done_missing(processing, t)
    THEN UNCHANGED <<data, processing, unfinished_tasks, dpc>>
    ELSE /\ processing' = processing \ {t}
         /\ IF task_done_unfinished(unfinished_tasks) < 0
            THEN \* ValueError('task_done() called too many times')
                 UNCHANGED <<data, unfinished_tasks, dpc>>
            ELSE /\ unfinished_tasks' = task_done_unfinished(unfinished_tasks)
                 /\ dpc' = IF unfinished_tasks' <= 0 THEN notify_all(dpc) ELSE dpc
                 /\ UNCHANGED data

\* WorkItems.task_done(f) by worker `self': an exception ends the thread
task_done(self) ==
    /\ task_done_state(f[self])
    /\ pc' = [pc EXCEPT ![self] = IF task_done_raises(f[self]) = "none" THEN "get" ELSE "dead"]

\* ------------------------------------------------------------------------
\* Worker.run
\* ------------------------------------------------------------------------
Holding(w) == pc[w] \in {"fill", "put", "save", "task_done"}

\* (variant: the worker goes from its last put to task_done without saving)
after_no_save(td, w) ==
    IF td # << >> THEN "put" ELSE IF w # << >> THEN "fill" ELSE "task_done"

\* where the worker goes after a tile_fill or a put
after(td, w) == IF td # << >> THEN "put" ELSE IF w # << >> THEN "fill" ELSE "save"

\* the next item of work.items(): tile_fill on the tile's surface, which is
\* read from the store at the first tile_fill
Fill(self) ==
    /\ pc[self] = "fill"
    /\ wk[self] # << >>
    /\ LET item == Head(wk[self])
           img  == IF im[self] = NoImage THEN tiles[f[self]] ELSE im[self]
           r    == tile_fill(img, item[2], item[1][1], item[1][2])
           fu   == follow_ups(r.edges, f[self][1], f[self][2],
                              item[1][1], item[1][2], fw, fh, W, H)
       IN  /\ im' = [im EXCEPT ![self] = r.pixels]
           /\ latest' = [latest EXCEPT ![f[self]] = r.pixels]
           /\ todo' = [todo EXCEPT ![self] = fu]
           /\ wk' = [wk EXCEPT ![self] = Tail(wk[self])]
           /\ pc' = [pc EXCEPT ![self] = after(fu, Tail(wk[self]))]
    /\ UNCHANGED <<worldVars, tiles, wiVars, f, driverVars, seqVars, fillVars, histVars,
                 tileVars, tdlog>>

\* the next self.work.put(...) of the loop body
Put(self) ==
    /\ pc[self] = "put"
    /\ put(self, Head(todo[self])[1], Head(todo[self])[2],
           after(Tail(todo[self]), wk[self]))
    /\ todo' = [todo EXCEPT ![self] = Tail(todo[self])]
    /\ UNCHANGED <<worldVars, tiles, f, wk, im, driverVars, seqVars, fillVars, histVars,
                 tileVars, tdlog, latest>>

\* im.save(file) has written the surface.  At "save" the worker is in the
\* call: the file may already be open for writing and incomplete
Save(self) ==
    /\ pc[self] = "save"
    /\ tiles' = [tiles EXCEPT ![f[self]] = im[self]]
    /\ im' = [im EXCEPT ![self] = NoImage]
    /\ pc' = [pc EXCEPT ![self] = "task_done"]
    /\ UNCHANGED <<worldVars, wiVars, f, wk, todo, driverVars, seqVars, fillVars, histVars,
                 tileVars, tdlog, latest>>

\* self.work.task_done(f)
TaskDone(self) ==
    /\ pc[self] = "task_done"
    /\ task_done(self)
    /\ f' = [f EXCEPT ![self] = NoTile]
    /\ UNCHANGED <<worldVars, tiles, wk, im, todo, di, dfrom, seqVars, fillVars, histVars,
                 tileVars, tdlog, latest>>

\* self.work.get()
Get(self) ==
    /\ mode = "conc"
    /\ GetClaim(self)
    /\ UNCHANGED <<worldVars, tiles, driverVars, seqVars, fillVars, histVars,
                 tileVars, tdlog, latest>>

GetBlock1(self) ==
    /\ mode = "conc"
    /\ GetWait1(self)
    /\ UNCHANGED <<worldVars, tiles, driverVars, seqVars, fillVars, histVars,
                 tileVars, tdlog, latest>>

GetBlock2(self) ==
    /\ mode = "conc"
    /\ GetWait2(self)
    /\ UNCHANGED <<worldVars, tiles, driverVars, seqVars, fillVars, histVars,
                 tileVars, tdlog, latest>>

Worker(self) ==
    \/ Get(self) \/ GetBlock1(self) \/ GetBlock2(self)
    \/ Fill(self) \/ Put(self) \/ Save(self) \/ TaskDone(self)

\* ------------------------------------------------------------------------
\* concurrent_world_fill
\* ------------------------------------------------------------------------
\* get_pixel_color(path, fl, tl)
get_pixel_color(store, world_position, tile_position) == store[world_position][tile_position]

DriverRead ==
    /\ dpc = "read"
    /\ dfrom' = get_pixel_color(tiles, fills[di][1], fills[di][2])
    /\ dpc' = "put"
    /\ UNCHANGED <<worldVars, tiles, wiVars, workerVars, di, seqVars, fillVars, histVars,
                 tileVars, tdlog, latest>>

\* the same call while a worker is writing the file of that tile: the
\* file is incomplete, Image.open or getpixel raises and so does
\* concurrent_world_fill (or it reads what the file held, as DriverRead)
DriverReadFails ==
    /\ dpc = "read"
    /\ \E w \in Workers : pc[w] = "save" /\ f[w] = fills[di][1]
    /\ dpc' = "raised"
    /\ UNCHANGED <<worldVars, tiles, wiVars, workerVars, di, dfrom, seqVars, fillVars,
                   histVars, tileVars, tdlog, latest>>

DriverPut ==
    /\ dpc = "put"
    /\ put(0, fills[di][1], <<{fills[di][2]}, dfrom, fills[di][3]>>, "none")
    /\ di' = di + 1
    /\ dpc' = IF di + 1 > Len(fills) THEN "join" ELSE "read"
    /\ UNCHANGED <<worldVars, tiles, f, wk, im, todo, dfrom, seqVars, fillVars, histVars,
                 tileVars, tdlog, latest>>

\* WorkItems.join: the counter is not zero, wait on all_tasks_done
JoinWait ==
    /\ dpc \in {"join", "join_woken"}
    /\ unfinished_tasks # 0
    /\ dpc' = "join_wait"
    /\ UNCHANGED <<worldVars, tiles, wiVars, workerVars, di, dfrom, seqVars, fillVars, histVars,
                 tileVars, tdlog, latest>>

\* WorkItems.join returns and so does concurrent_world_fill
JoinReturn ==
    /\ dpc \in {"join", "join_woken"}
    /\ unfinished_tasks = 0
    /\ dpc' = "done"
    /\ UNCHANGED <<worldVars, tiles, wiVars, workerVars, di, dfrom, seqVars, fillVars, histVars,
                 tileVars, tdlog, latest>>

\* ------------------------------------------------------------------------
\* world_fill
\* ------------------------------------------------------------------------
\* the first loop: one unit per fill request
SeqRead ==
    /\ dpc = "seq_read"
    /\ LET from_color == get_pixel_color(tiles, fills[di][1], fills[di][2])
       IN  work_queue' = Append(work_queue,
                                <<fills[di][1], {fills[di][2]}, from_color, fills[di][3]>>)
    /\ di' = di + 1
    /\ dpc' = IF di + 1 > Len(fills) THEN "seq_loop" ELSE "seq_read"
    /\ UNCHANGED <<worldVars, tiles, wiVars, workerVars, dfrom, img_map, fillVars, histVars,
                 tileVars, tdlog, latest>>

\* the units appended to the stack after a tile_fill
appended(fu) == [i \in 1..Len(fu) |-> <<fu[i][1], fu[i][2][1], fu[i][2][2], fu[i][2][3]>>]

\* one iteration of `while work_queue'
SeqLoop ==
    /\ dpc = "seq_loop"
    /\ work_queue # << >>
    /\ LET work == work_queue[Len(work_queue)]
           t    == work[1]
           img  == IF t \in DOMAIN img_map THEN img_map[t] ELSE tiles[t]
           r    == tile_fill(img, work[2], work[3], work[4])
           fu   == follow_ups(r.edges, t[1], t[2], work[3], work[4], fw, fh, W, H)
       IN  /\ work_queue' = SubSeq(work_queue, 1, Len(work_queue) - 1) \o appended(fu)
           /\ img_map' = MapSet(img_map, t, r.pixels)
    /\ Len(work_queue') <= MaxStack
    /\ UNCHANGED <<worldVars, tiles, wiVars, workerVars, driverVars, fillVars, histVars,
                 tileVars, tdlog, latest>>

\* the stack is empty: save every opened surface and return
SeqSave ==
    /\ dpc = "seq_loop"
    /\ work_queue = << >>
    /\ tiles' = [t \in DOMAIN tiles |-> IF t \in DOMAIN img_map THEN img_map[t] ELSE tiles[t]]
    /\ dpc' = "done"
    /\ UNCHANGED <<worldVars, wiVars, workerVars, di, dfrom, seqVars, fillVars, histVars,
                 tileVars, tdlog, latest>>

Driver == DriverRead \/ DriverReadFails \/ DriverPut \/ JoinWait \/ JoinReturn

Sequential == SeqRead \/ SeqLoop \/ SeqSave

\* state of the parts a specification does not run
IdleFill == fst = << >> /\ fargs = << >> /\ fpc = "off" /\ fcalls = << >>
IdleHist == batch = << >> /\ gotBatch = << >> /\ nputs = 0
IdleTile == tst = << >> /\ targs = << >> /\ tpc = "off"

Init ==
    /\ scn \in 1..Len(Scenarios)
    /\ mode \in {"conc", "seq"}
    /\ tiles = Scenarios[scn].world
    /\ data = EmptyMap
    /\ processing = {}
    /\ unfinished_tasks = 0
    /\ pc = [w \in Workers |-> IF mode = "conc" THEN "get" ELSE "off"]
    /\ f = [w \in Workers |-> NoTile]
    /\ wk = [w \in Workers |-> << >>]
    /\ im = [w \in Workers |-> NoImage]
    /\ todo = [w \in Workers |-> << >>]
    /\ dpc = IF mode = "conc" THEN "read" ELSE "seq_read"
    /\ di = 1
    /\ dfrom = "none"
    /\ work_queue = << >>
    /\ img_map = EmptyMap
    /\ IdleFill
    /\ IdleHist
    /\ IdleTile
    /\ tdlog = << >>
    /\ latest = Scenarios[scn].world

Next ==
    \/ \E self \in Workers : Worker(self)
    \/ Driver
    \/ Sequential

Spec == Init /\ [][Next]_vars

\* the threads are scheduled fairly
FairSpec ==
    /\ Spec
    /\ WF_vars(Driver)
    /\ \A self \in Workers : WF_vars(Worker(self))

\* ------------------------------------------------------------------------
\* The recombined world image
\* ------------------------------------------------------------------------
\* color of world pixel <<X, Y>> in a store of tiles
At(store, q) == store[<<q[1] \div W, q[2] \div H>>][<<q[1] % W, q[2] % H>>]
WorldPixels(s) == (0..(Scenarios[s].fw * W - 1)) \X (0..(Scenarios[s].fh * H - 1))
Around(q) == (((q[1] - 1)..(q[1] + 1)) \X ((q[2] - 1)..(q[2] + 1))) \ {q}

\* the pixels of color c that are 8-connected to S through pixels of color c
RECURSIVE Connected(_, _, _, _)
Connected(store, pixels, c, S) ==
    LET more == {q \in UNION {Around(a) : a \in S} : q \in pixels /\ At(store, q) = c} \ S
    IN  IF more = {} THEN S ELSE Connected(store, pixels, c, S \cup more)

\* world position of the seed of fill request i of scenario s
SeedOf(s, i) ==
    LET fl == Scenarios[s].fills[i]
    IN  <<fl[1][1] * W + fl[2][1], fl[1][2] * H + fl[2][2]>>
ToColor(s, i) == Scenarios[s].fills[i][3]
SeedColor(s, i) == At(Scenarios[s].world, SeedOf(s, i))

\* the region fill request i of scenario s is to color
Region == [s \in 1..Len(Scenarios) |->
            [i \in 1..Len(Scenarios[s].fills) |->
                Connected(Scenarios[s].world, WorldPixels(s), SeedColor(s, i), {SeedOf(s, i)})]]

\* every surface a thread currently has in memory, and the store
Surfaces ==
    {tiles}
    \cup {[t \in DOMAIN tiles |-> IF t = f[w] THEN im[w] ELSE tiles[t]] :
            w \in {x \in Workers : im[x] # NoImage}}
    \cup {[t \in DOMAIN tiles |-> IF t \in DOMAIN img_map THEN img_map[t] ELSE tiles[t]]}

Drained == DOMAIN data = {} /\ processing = {} /\ \A w \in Workers : ~Holding(w)

\* every request of the scenario asks for a color its seed does not have
RealFills(s) == \A i \in 1..Len(Scenarios[s].fills) : ToColor(s, i) # SeedColor(s, i)

\* ------------------------------------------------------------------------
\* Properties of the drivers
\* ------------------------------------------------------------------------
\* C2: join has returned only if nothing is pending in data, no tile is in
\* processing and no worker is between its get and its task_done, every
\* request having been put; and the driver is left waiting in join only
\* while some put tile has had no task_done yet.
C2_JoinIffDrained ==
    /\ (mode = "conc" /\ dpc = "done") =>
            /\ Drained
            /\ unfinished_tasks = 0
            /\ di > Len(fills)
    /\ dpc = "join_wait" =>
            /\ unfinished_tasks > 0
            /\ ~Drained

\* join returned after workers had filled tiles and put follow-up work
C2_Witness ==
    /\ mode = "conc" /\ dpc = "done" /\ scn = 1
    /\ tiles[<<1, 1>>] = Plain("red")

\* C5: with fairly scheduled workers, the concurrent driver returns for
\* every list of requests whose to-colors differ from the colors at their
\* seeds (a call that a failed read of a tile ends has ended too).
C5_Terminates == (mode = "conc" /\ RealFills(scn)) => <>(dpc \in {"done", "raised"})

\* C6: a request for the color its seed already has puts no unit on the
\* queue or the stack, runs no tile_fill and leaves the tiles as they were.
C6_NoopFillDoesNothing ==
    (\A i \in 1..Len(fills) : ToColor(scn, i) = SeedColor(scn, i)) =>
        /\ DOMAIN data = {} /\ processing = {} /\ unfinished_tasks = 0
        /\ work_queue = << >> /\ img_map = EmptyMap
        /\ \A w \in Workers : ~Holding(w)
        /\ tiles = Scenarios[scn].world

Independent(s) ==
    /\ Len(Scenarios[s].fills) = 2
    /\ RealFills(s)
    /\ LET a == Scenarios[s].fills[1][1]
           b == Scenarios[s].fills[2][1]
       IN  a[1] - b[1] > 1 \/ b[1] - a[1] > 1 \/ a[2] - b[2] > 1 \/ b[2] - a[2] > 1
    /\ Region[s][1] \cap Region[s][2] = {}
    /\ \A q \in Region[s][1] : Around(q) \cap Region[s][2] = {}

\* C8: for two independent requests, in every surface in the store or in a
\* thread's memory a pixel of one region has its first color or that
\* request's to-color and every pixel outside both regions has its first
\* color.
C8_NoCrossPropagation ==
    Independent(scn) =>
        \A sf \in Surfaces : \A q \in WorldPixels(scn) :
            LET c0 == At(Scenarios[scn].world, q)
            IN  IF q \in Region[scn][1] THEN At(sf, q) \in {c0, ToColor(scn, 1)}
                ELSE IF q \in Region[scn][2] THEN At(sf, q) \in {c0, ToColor(scn, 2)}
                ELSE At(sf, q) = c0

\* both fills ran to the end and met in the middle tile
C8_Witness ==
    /\ Independent(scn) /\ mode = "conc" /\ dpc = "done"
    /\ At(tiles, <<W - 1, 0>>) = ToColor(scn, 1)
    /\ At(tiles, <<W, 0>>) = ToColor(scn, 1)
    /\ At(tiles, <<2 * W - 1, 0>>) = ToColor(scn, 2)
    /\ At(tiles, <<2 * W, 0>>) = ToColor(scn, 2)
    /\ ToColor(scn, 1) # ToColor(scn, 2)

\* ------------------------------------------------------------------------
\* WorkItems under arbitrary clients: any thread puts any unit at any time,
\* the workers get a tile and later call task_done for it
\* ------------------------------------------------------------------------
HTiles == Grid(2, 1)
HPairs == {<<"black", "red">>, <<"white", "blue">>}
HSeeds == {<<0, 0>>, <<1, 0>>}

HPut ==
    /\ nputs < MaxPuts
    /\ \E t \in HTiles, seeds \in (SUBSET HSeeds) \ {{}}, cp \in HPairs :
          /\ put(0, t, <<seeds, cp[1], cp[2]>>, "none")
          /\ batch' = [batch EXCEPT ![t] = @ \cup {<<seeds, cp>>}]
    /\ nputs' = nputs + 1
    /\ UNCHANGED <<worldVars, tiles, f, wk, im, todo, driverVars, seqVars, fillVars, gotBatch,
                 tileVars, tdlog, latest>>

HGet(self) ==
    /\ mode = "harness"
    /\ GetClaim(self)
    /\ gotBatch' = [gotBatch EXCEPT ![self] = batch[f'[self]]]
    /\ batch' = [batch EXCEPT ![f'[self]] = {}]
    /\ UNCHANGED <<worldVars, tiles, driverVars, seqVars, fillVars, nputs,
                 tileVars, tdlog, latest>>

HGetBlock1(self) ==
    /\ mode = "harness"
    /\ GetWait1(self)
    /\ UNCHANGED <<worldVars, tiles, driverVars, seqVars, fillVars, histVars,
                 tileVars, tdlog, latest>>

HGetBlock2(self) ==
    /\ mode = "harness"
    /\ GetWait2(self)
    /\ UNCHANGED <<worldVars, tiles, driverVars, seqVars, fillVars, histVars,
                 tileVars, tdlog, latest>>

HTaskDone(self) ==
    /\ mode = "harness"
    /\ pc[self] = "fill"
    /\ task_done(self)
    /\ f' = [f EXCEPT ![self] = NoTile]
    /\ wk' = [wk EXCEPT ![self] = << >>]
    /\ gotBatch' = [gotBatch EXCEPT ![self] = {}]
    /\ UNCHANGED <<worldVars, tiles, im, todo, di, dfrom, seqVars, fillVars, batch, nputs,
                 tileVars, tdlog, latest>>

InitWI ==
    /\ scn = 2
    /\ mode = "harness"
    /\ tiles = Scenarios[scn].world
    /\ data = EmptyMap
    /\ processing = {}
    /\ unfinished_tasks = 0
    /\ pc = [w \in Workers |-> "get"]
    /\ f = [w \in Workers |-> NoTile]
    /\ wk = [w \in Workers |-> << >>]
    /\ im = [w \in Workers |-> NoImage]
    /\ todo = [w \in Workers |-> << >>]
    /\ dpc = "off"
    /\ di = 1
    /\ dfrom = "none"
    /\ work_queue = << >>
    /\ img_map = EmptyMap
    /\ IdleFill
    /\ batch = [t \in HTiles |-> {}]
    /\ gotBatch = [w \in Workers |-> {}]
    /\ nputs = 0
    /\ IdleTile
    /\ tdlog = << >>
    /\ latest = << >>

NextWI ==
    \/ HPut
    \/ \E self \in Workers :
          HGet(self) \/ HGetBlock1(self) \/ HGetBlock2(self) \/ HTaskDone(self)

SpecWI == InitWI /\ [][NextWI]_vars

\* the color pairs of a set of puts, and the seeds put for one pair
PairsOf(b) == {u[2] : u \in b}
SeedsOf(b, cp) == UNION {u[1] : u \in {x \in b : x[2] = cp}}

\* a work dict holds exactly the puts of b: one entry per color pair put,
\* with all the seeds put for that pair and no other
Holds(w, b) ==
    /\ DictKeys(w) = PairsOf(b)
    /\ Len(w) = Cardinality(PairsOf(b))
    /\ \A i \in 1..Len(w) : w[i][2] = SeedsOf(b, w[i][1])

\* C1: no two workers are between get and task_done for the same tile, and
\* the processing set is the set of tiles so held (so a get never answered
\* with a tile that was in it).
C1_MutualExclusion ==
    /\ \A w1, w2 \in Workers :
          (w1 # w2 /\ Holding(w1) /\ Holding(w2)) => f[w1] # f[w2]
    /\ processing = {f[w] : w \in {x \in Workers : Holding(x)}}

\* a tile is pending again while a worker holds it, and another worker
\* holds another tile
C1_Witness ==
    \E w1, w2 \in Workers :
        /\ w1 # w2 /\ Holding(w1) /\ Holding(w2)
        /\ f[w1] \in DOMAIN data
        /\ mode = "harness"

\* C3: when the puts a get answers were all for one color pair and had
\* pairwise disjoint seed sets, the work returned has exactly one entry,
\* for that pair, and its seed set is the union of the seed sets put.
C3_MergeRule ==
    \A w \in Workers :
        (/\ Holding(w) /\ mode = "harness"
         /\ gotBatch[w] # {}
         /\ \A u, v \in gotBatch[w] : u[2] = v[2] /\ (u # v => u[1] \cap v[1] = {}))
        => \E cp \in HPairs :
              wk[w] = << <<cp, UNION {u[1] : u \in gotBatch[w]}>> >>

\* several puts with disjoint seed sets were merged into one claim
C3_Witness ==
    \E w \in Workers :
        /\ Holding(w) /\ mode = "harness"
        /\ Cardinality(gotBatch[w]) > 1
        /\ \A u, v \in gotBatch[w] : u[2] = v[2] /\ u[1] # {} /\ (u # v => u[1] \cap v[1] = {})
        /\ Len(wk[w]) = 1 /\ wk[w][1][2] = HSeeds

\* C4: every unit put since a tile was last got is pending in data, also
\* while the tile is in processing, and nothing else is; a get returns all
\* the units put for its tile since the tile's previous get, of every color
\* pair, and nothing else, and leaves none of them in data.
C4_NoLossNoDuplication ==
    mode = "harness" =>
        /\ DOMAIN data = {t \in HTiles : batch[t] # {}}
        /\ \A t \in DOMAIN data : Holds(data[t], batch[t])
        /\ \A w \in Workers : Holding(w) => Holds(wk[w], gotBatch[w])

\* a worker holds units of two color pairs while a unit put later for the
\* same tile is pending
C4_Witness ==
    \E w \in Workers :
        /\ Holding(w) /\ mode = "harness"
        /\ Len(wk[w]) = 2
        /\ f[w] \in DOMAIN data
        /\ \E i \in 1..2 : wk[w][i][2] \cap data[f[w]][1][2] # {}

\* ------------------------------------------------------------------------
\* fill(image, position, color) on one surface, called twice in a row with
\* the same arguments; the frontier set is popped in any order
\* ------------------------------------------------------------------------
\* image.size
FillSize == <<FillW, 2>>
FillPos == (0..(FillSize[1] - 1)) \X (0..(FillSize[2] - 1))

\* the locals of fill before its while loop
fill_start(image, position) ==
    [pixels |-> image, visited |-> {}, frontier |-> {position},
     start_color |-> image[position]]

FillPop ==
    /\ fpc = "run"
    /\ \E p \in fst.frontier : fst' = fill_step(fst, p, fargs.color, FillSize[1], FillSize[2])
    /\ UNCHANGED <<worldVars, tiles, wiVars, workerVars, driverVars, seqVars, fargs, fpc, fcalls, histVars,
                 tileVars, tdlog, latest>>

FillReturn ==
    /\ fpc = "run"
    /\ fst.frontier = {}
    /\ fpc' = "returned"
    /\ fcalls' = Append(fcalls, fst.pixels)
    /\ UNCHANGED <<worldVars, tiles, wiVars, workerVars, driverVars, seqVars, fst, fargs, histVars,
                 tileVars, tdlog, latest>>

FillAgain ==
    /\ fpc = "returned"
    /\ Len(fcalls) < 3
    /\ fst' = fill_start(fst.pixels, fargs.position)
    /\ fpc' = "run"
    /\ UNCHANGED <<worldVars, tiles, wiVars, workerVars, driverVars, seqVars, fargs, fcalls, histVars,
                 tileVars, tdlog, latest>>

\* the pixels of color c of a surface that are 8-connected to S through
\* pixels of color c
RECURSIVE SurfaceConnected(_, _, _)
SurfaceConnected(image, c, S) ==
    LET more == {q \in UNION {Around(a) : a \in S} : q \in DOMAIN image /\ image[q] = c} \ S
    IN  IF more = {} THEN S ELSE SurfaceConnected(image, c, S \cup more)

InitFill ==
    /\ scn = 1
    /\ mode = "fill"
    /\ tiles = Scenarios[scn].world
    /\ data = EmptyMap
    /\ processing = {}
    /\ unfinished_tasks = 0
    /\ pc = [w \in Workers |-> "off"]
    /\ f = [w \in Workers |-> NoTile]
    /\ wk = [w \in Workers |-> << >>]
    /\ im = [w \in Workers |-> NoImage]
    /\ todo = [w \in Workers |-> << >>]
    /\ dpc = "off"
    /\ di = 1
    /\ dfrom = "none"
    /\ work_queue = << >>
    /\ img_map = EmptyMap
    /\ \E image \in [FillPos -> {"black", "red"}], position \in FillPos,
          color \in {"black", "red"} :
          /\ fst = fill_start(image, position)
          /\ fargs = [position |-> position, color |-> color,
                      component |-> SurfaceConnected(image, image[position], {position})]
          /\ fcalls = <<image>>
    /\ fpc = "run"
    /\ IdleHist
    /\ IdleTile
    /\ tdlog = << >>
    /\ latest = << >>

NextFill == FillPop \/ FillReturn \/ FillAgain

SpecFill == InitFill /\ [][NextFill]_vars

\* the start-colored component of the seed in the surface fill was given
SeedComponent == fargs.component

\* C9: fill with a color other than the seed's start color never changes a
\* pixel outside the start-colored 8-connected component of the seed, and
\* when it returns, in whatever order the frontier was popped, exactly the
\* pixels of that component have the new color.
C9_FillsSeedComponent ==
    (fpc # "off" /\ fargs.color # fcalls[1][fargs.position]) =>
        /\ \A p \in FillPos \ SeedComponent : fst.pixels[p] = fcalls[1][p]
        /\ \A p \in SeedComponent : fst.pixels[p] \in {fcalls[1][p], fargs.color}
        /\ Len(fcalls) >= 2 =>
              fcalls[2] = [p \in FillPos |-> IF p \in SeedComponent THEN fargs.color
                                              ELSE fcalls[1][p]]

\* a fill returned that colored a component of several pixels and left a
\* pixel of the start color, outside the component, as it was
C9_Witness ==
    /\ fpc = "returned" /\ Len(fcalls) = 2
    /\ fargs.color # fcalls[1][fargs.position]
    /\ Cardinality(SeedComponent) > 1
    /\ \E p \in FillPos \ SeedComponent : fcalls[1][p] = fcalls[1][fargs.position]
    /\ fcalls[2] # fcalls[1]

\* C10: fill with the color the seed already has leaves every pixel as it
\* was, at every moment of the call, and the call ends: a popped position
\* is never in the frontier again, so the loop runs at most once per pixel;
\* a second call with the same seed and color, whatever the color, returns
\* the surface the first call returned.
C10_Idempotent ==
    fpc # "off" =>
        /\ fargs.color = fcalls[1][fargs.position] => fst.pixels = fcalls[1]
        /\ fst.frontier \cap fst.visited = {}
        /\ Len(fcalls) = 3 => fcalls[3] = fcalls[2]

\* a second call returned after the first had run over several pixels with
\* the color they already had
C10_Witness ==
    /\ fpc = "returned" /\ Len(fcalls) = 3
    /\ fargs.color = fcalls[1][fargs.position]
    /\ Cardinality(SeedComponent) > 2
    /\ fcalls[3] = fcalls[1]

\* ------------------------------------------------------------------------
\* tile_fill on its own: every small surface, called once
\* ------------------------------------------------------------------------
\* state of the program parts a specification of one function does not run
IdleProgram ==
    /\ tiles = Scenarios[scn].world
    /\ data = EmptyMap
    /\ processing = {}
    /\ unfinished_tasks = 0
    /\ pc = [w \in Workers |-> "off"]
    /\ f = [w \in Workers |-> NoTile]
    /\ wk = [w \in Workers |-> << >>]
    /\ im = [w \in Workers |-> NoImage]
    /\ todo = [w \in Workers |-> << >>]
    /\ dpc = "off"
    /\ di = 1
    /\ dfrom = "none"
    /\ work_queue = << >>
    /\ img_map = EmptyMap
    /\ tdlog = << >>
    /\ latest = << >>

\* im.size of the surfaces tile_fill is given here
TileSize == <<FillW, 3>>
TilePos == (0..(TileSize[1] - 1)) \X (0..(TileSize[2] - 1))
\* the seed sets given: no seed, one seed, two opposite corners
SeedSets ==
    {S \in SUBSET TilePos : Cardinality(S) <= 1}
    \cup {{<<0, 0>>, <<TileSize[1] - 1, TileSize[2] - 1>>},
          {<<TileSize[1] - 1, 0>>, <<0, TileSize[2] - 1>>}}

\* the locals of tile_fill when its loop starts
tile_fill_start(image, tile_positions) ==
    [pixels |-> image, edges |-> Edges, visited |-> {}, frontier |-> tile_positions]

\* the whole call
TileFill ==
    /\ tpc = "call"
    /\ tst' = tile_fill_loop(tile_fill_start(targs.im, targs.tile_positions),
                             targs.from_color, targs.to_color, TileSize[1], TileSize[2])
    /\ tpc' = "returned"
    /\ UNCHANGED <<worldVars, tiles, wiVars, workerVars, driverVars, seqVars, fillVars,
                   histVars, targs, tdlog, latest>>

\* surfaces of two colors; from_color is "black" (the colors are
\* interchangeable), to_color is from_color or the other color
InitTile ==
    /\ scn = 1
    /\ mode = "tile"
    /\ IdleProgram
    /\ IdleFill
    /\ IdleHist
    /\ \E image \in [TilePos -> {"black", "red"}], S \in SeedSets,
          to_color \in {"black", "red"} :
          targs = [im |-> image, tile_positions |-> S,
                   from_color |-> "black", to_color |-> to_color]
    /\ tst = << >>
    /\ tpc = "call"

NextTile == TileFill

SpecTile == InitTile /\ [][NextTile]_vars

\* the pixels tile_fill writes: the from-colored pixels 8-connected to a
\* from-colored seed
TileWritten ==
    SurfaceConnected(targs.im, targs.from_color,
                     {p \in targs.tile_positions : targs.im[p] = targs.from_color})

\* C11: when tile_fill returns, each edge set holds exactly the written
\* pixels that its test of the chain x = 0, else y = 0, else x = w - 1, else
\* y = h - 1 selects: a written pixel is in at most one edge set, <<0, 0>>
\* is in left and never in top, a pixel that did not have from_color and a
\* written pixel off the border are in no edge set.  With to_color other
\* than from_color the written pixels are the pixels whose color changed.
C11_EdgeClassification ==
    (mode = "tile" /\ tpc = "returned") =>
        LET w == TileSize[1]
            h == TileSize[2]
            e == tst.edges
        IN  /\ e.left = {p \in TileWritten : p[1] = 0}
            /\ e.top = {p \in TileWritten : p[1] # 0 /\ p[2] = 0}
            /\ e.right = {p \in TileWritten : p[1] # 0 /\ p[2] # 0 /\ p[1] = w - 1}
            /\ e.bottom = {p \in TileWritten :
                              p[1] # 0 /\ p[2] # 0 /\ p[1] # w - 1 /\ p[2] = h - 1}
            /\ targs.to_color # targs.from_color =>
                  TileWritten = {p \in TilePos : tst.pixels[p] # targs.im[p]}

\* a call returned that changed the corner <<0, 0>>, a pixel of each other
\* border and a pixel off the border, on a surface with a border pixel of
\* another color
C11_Witness ==
    /\ mode = "tile" /\ tpc = "returned"
    /\ targs.to_color # targs.from_color
    /\ <<0, 0>> \in tst.edges.left
    /\ tst.edges.top # {} /\ tst.edges.right # {} /\ tst.edges.bottom # {}
    /\ \E p \in TileWritten : p[1] \in 1..(TileSize[1] - 2) /\ p[2] \in 1..(TileSize[2] - 2)
    /\ \E p \in TilePos : p[1] = 0 /\ targs.im[p] # targs.from_color

\* ------------------------------------------------------------------------
\* tile_fill step by step, with seeds that may lie outside the surface
\* ------------------------------------------------------------------------
\* seeds outside the surface: one left of it, one right of it
OutPos == {<<-1, 0>>, <<TileSize[1], 1>>}
StepSeedSets == {S \in SUBSET (TilePos \cup OutPos) : Cardinality(S) \in 1..2}
\* the surfaces given: all black, and black with a red middle row
StepImages ==
    {[p \in TilePos |-> "black"],
     [p \in TilePos |-> IF p[2] = 1 THEN "red" ELSE "black"]}

\* pixels[px, py] raised IndexError
IndexError == << >>

\* the outcomes of indexing the pixel access object with p: the pixel at p;
\* IndexError for a position outside the surface; for a negative coordinate
\* the imaging library either raises too or counts from the far border,
\* depending on its version
pixel_index(p, w, h) ==
    LET q == <<IF p[1] < 0 THEN w + p[1] ELSE p[1], IF p[2] < 0 THEN h + p[2] ELSE p[2]>>
    IN  IF p[1] \in 0..(w - 1) /\ p[2] \in 0..(h - 1) THEN {p}
        ELSE IF q[1] \in 0..(w - 1) /\ q[2] \in 0..(h - 1) THEN {q, IndexError}
        ELSE {IndexError}

\* one iteration of the while loop of tile_fill, popping p from the
\* frontier, when pixels[px, py] is the pixel at q
tile_fill_access(st, p, q, from_color, to_color, w, h) ==
    LET vis == st.visited \cup {p}
        fr  == st.frontier \ {p}
    IN  IF st.pixels[q] # from_color
        THEN [st EXCEPT !.visited = vis, !.frontier = fr]
        ELSE [pixels   |-> [st.pixels EXCEPT ![q] = to_color],
              edges    |-> add_edge(st.edges, p[1], p[2], w, h),
              visited  |-> vis,
              frontier |-> fr \cup (neighbors(p[1], p[2], w, h) \ vis)]

\* frontier.pop() takes any element; the iteration ends the call with the
\* IndexError of the pixel access, or goes on
TilePop ==
    /\ tpc = "run"
    /\ \E p \in tst.frontier : \E q \in pixel_index(p, TileSize[1], TileSize[2]) :
          IF q = IndexError
          THEN /\ tst' = [tst EXCEPT !.visited = @ \cup {p}, !.frontier = @ \ {p}]
               /\ tpc' = "raised"
          ELSE /\ tst' = tile_fill_access(tst, p, q, targs.from_color, targs.to_color,
                                          TileSize[1], TileSize[2])
               /\ tpc' = "run"
    /\ UNCHANGED <<worldVars, tiles, wiVars, workerVars, driverVars, seqVars, fillVars,
                   histVars, targs, tdlog, latest>>

\* return edges
TileReturn ==
    /\ tpc = "run"
    /\ tst.frontier = {}
    /\ tpc' = "returned"
    /\ UNCHANGED <<worldVars, tiles, wiVars, workerVars, driverVars, seqVars, fillVars,
                   histVars, tst, targs, tdlog, latest>>

InitTileSteps ==
    /\ scn = 1
    /\ mode = "tile_steps"
    /\ IdleProgram
    /\ IdleFill
    /\ IdleHist
    /\ \E image \in StepImages, S \in StepSeedSets :
          /\ targs = [im |-> image, tile_positions |-> S,
                      from_color |-> "black", to_color |-> "red"]
          /\ tst = tile_fill_start(image, S)
    /\ tpc = "run"

NextTileSteps == TilePop \/ TileReturn

SpecTileSteps == InitTileSteps /\ [][NextTileSteps]_vars

\* C15: when a seed given to tile_fill lies outside the surface, the call
\* changes no pixel and does not return edges: it is rejected before any
\* mutation, whatever other seeds are given and in whatever order the
\* frontier is popped.
C15_RejectedBeforeMutation ==
    (mode = "tile_steps" /\ targs.tile_positions \cap OutPos # {}) =>
        /\ tst.pixels = targs.im
        /\ tpc # "returned"

\* ------------------------------------------------------------------------
\* Tile addressing (the drivers, Spec)
\* ------------------------------------------------------------------------
\* a put that a worker holding tile t has yet to make goes to a tile next to
\* t with seeds on the border that faces t
FacesHolder(t, u, seeds) ==
    \/ u = <<t[1] - 1, t[2]>> /\ \A s \in seeds : s[1] = W - 1
    \/ u = <<t[1], t[2] - 1>> /\ \A s \in seeds : s[2] = H - 1
    \/ u = <<t[1] + 1, t[2]>> /\ \A s \in seeds : s[1] = 0
    \/ u = <<t[1], t[2] + 1>> /\ \A s \in seeds : s[2] = 0

\* C12: every tile in the pending map, in processing, in the puts a worker
\* has yet to make and in the work stack of world_fill lies in the grid,
\* 0 <= fx < fw and 0 <= fy < fh (an edge that points out of the world is
\* dropped); every seed is a position of a tile; the puts that follow a
\* tile_fill go to the left, top, right or bottom neighbour of the tile
\* filled, with a non-empty seed set on the column w - 1, the row h - 1, the
\* column 0 or the row 0 of that neighbour.
C12_TileAddressing ==
    mode \in {"conc", "seq"} =>
        /\ DOMAIN data \subseteq Grid(fw, fh)
        /\ processing \subseteq Grid(fw, fh)
        /\ \A t \in DOMAIN data : \A i \in 1..Len(data[t]) : data[t][i][2] \subseteq Pos
        /\ \A i \in 1..Len(work_queue) :
              work_queue[i][1] \in Grid(fw, fh) /\ work_queue[i][2] \subseteq Pos
        /\ \A w \in Workers : \A i \in 1..Len(todo[w]) :
              LET u == todo[w][i][1]
                  seeds == todo[w][i][2][1]
              IN  /\ u \in Grid(fw, fh)
                  /\ seeds # {} /\ seeds \subseteq Pos
                  /\ FacesHolder(f[w], u, seeds)

\* a worker filled the last tile of the 2 x 2 world, every border of which
\* changed: it has two puts to make, to the left and to the top neighbour,
\* and none to the right or the bottom
C12_Witness ==
    /\ scn = 1 /\ mode = "conc"
    /\ \E w \in Workers :
          /\ f[w] = <<fw - 1, fh - 1>>
          /\ pc[w] = "put"
          /\ Len(todo[w]) = 2
          /\ todo[w][1][1] = <<fw - 2, fh - 1>>
          /\ todo[w][2][1] = <<fw - 1, fh - 2>>
          /\ \A p \in Pos : im[w][p] = "red"

\* ------------------------------------------------------------------------
\* WorkItems with task_done calls made out of turn
\* ------------------------------------------------------------------------
\* a put of one unit of work (what is put does not matter to the counter)
HPutOne ==
    /\ nputs < MaxPuts
    /\ \E t \in HTiles : put(0, t, <<{<<0, 0>>}, "black", "red">>, "none")
    /\ nputs' = nputs + 1
    /\ UNCHANGED <<worldVars, tiles, f, wk, im, todo, driverVars, seqVars, fillVars,
                   batch, gotBatch, tileVars, tdlog, latest>>

\* some thread calls task_done(t) for any tile, whether it got the tile or
\* not; tdlog is the last such call and what it raised (flip tells a call
\* from the one before it)
HExtraTaskDone ==
    /\ \E t \in HTiles :
          /\ task_done_state(t)
          /\ tdlog' = [tile |-> t, raised |-> task_done_raises(t), flip |-> ~tdlog.flip]
    /\ UNCHANGED <<worldVars, tiles, data, workerVars, di, dfrom, seqVars, fillVars,
                   histVars, tileVars, latest>>

InitAcct ==
    /\ scn = 2
    /\ mode = "harness"
    /\ IdleFill
    /\ IdleTile
    /\ tiles = Scenarios[scn].world
    /\ data = EmptyMap
    /\ processing = {}
    /\ unfinished_tasks = 0
    /\ pc = [w \in Workers |-> "get"]
    /\ f = [w \in Workers |-> NoTile]
    /\ wk = [w \in Workers |-> << >>]
    /\ im = [w \in Workers |-> NoImage]
    /\ todo = [w \in Workers |-> << >>]
    /\ dpc = "off"
    /\ di = 1
    /\ dfrom = "none"
    /\ work_queue = << >>
    /\ img_map = EmptyMap
    /\ batch = [t \in HTiles |-> {}]
    /\ gotBatch = [w \in Workers |-> {}]
    /\ nputs = 0
    /\ tdlog = [tile |-> NoTile, raised |-> "none", flip |-> FALSE]
    /\ latest = << >>

NextAcct ==
    \/ HPutOne
    \/ HExtraTaskDone
    \/ \E self \in Workers :
          HGet(self) \/ HGetBlock1(self) \/ HGetBlock2(self) \/ HTaskDone(self)

SpecAcct == InitAcct /\ [][NextAcct]_vars

\* C13: a task_done call for a tile that is not in processing, or made when
\* the counter is 0 (more calls than put incremented), raises at once; a
\* call that raises leaves data, processing and unfinished_tasks as they
\* were; a call that does not raise takes exactly one from the counter,
\* which is never negative.  This holds for the calls made out of turn and
\* for the call of a worker whose tile a call out of turn has released.
C13_AccountingFault ==
    [][/\ unfinished_tasks' >= 0
       /\ tdlog' # tdlog =>
             LET e == tdlog'
             IN  /\ (e.tile \notin processing \/ unfinished_tasks = 0) => e.raised # "none"
                 /\ e.raised # "none" => UNCHANGED wiVars
                 /\ e.raised = "none" => unfinished_tasks' = unfinished_tasks - 1
       /\ \A w \in Workers :
             (pc[w] = "fill" /\ pc'[w] # "fill") =>
                 /\ (f[w] \notin processing \/ unfinished_tasks = 0) => pc'[w] = "dead"
                 /\ pc'[w] = "dead" => UNCHANGED wiVars
                 /\ pc'[w] # "dead" => unfinished_tasks' = unfinished_tasks - 1
      ]_vars

\* after some put, the last call out of turn raised with the counter at 0;
\* an earlier one had released the tile of a worker, whose own call raised
C13_Witness ==
    /\ mode = "harness" /\ nputs > 0
    /\ tdlog.raised # "none" /\ unfinished_tasks = 0
    /\ \E w \in Workers : pc[w] = "dead"

\* ------------------------------------------------------------------------
\* concurrent_world_fill when reading or writing a tile's file can fail
\* ------------------------------------------------------------------------
\* Image.open(file) or im.save(file) raises in Worker.run: nothing catches
\* the exception, the thread ends, with the tile still the one it got
IOFault(self) ==
    /\ \/ pc[self] = "fill" /\ im[self] = NoImage
       \/ pc[self] = "save"
    /\ pc' = [pc EXCEPT ![self] = "dead"]
    /\ UNCHANGED <<worldVars, tiles, wiVars, f, wk, im, todo, driverVars, seqVars, fillVars,
                   histVars, tileVars, tdlog, latest>>

\* worlds and fills that concurrent_world_fill completes when no file
\* operation fails
InitIO == Init /\ mode = "conc" /\ scn \in {1, 6}

NextIO ==
    \/ \E self \in Workers : Worker(self) \/ IOFault(self)
    \/ Driver

SpecIO == InitIO /\ [][NextIO]_vars

\* nothing can happen any more: the driver waits in join and every worker
\* thread has ended or waits in get
Stuck ==
    /\ dpc = "join_wait"
    /\ \A w \in Workers : pc[w] \in {"dead", "wait"}

\* C14: after a file operation failed in a worker that holds a tile,
\* concurrent_world_fill returns or raises and the tile leaves processing:
\* the program is never stuck with the driver blocked in join, the tile of
\* the ended worker in processing and unfinished_tasks above zero.
C14_FaultSurfaces ==
    \A w \in Workers :
        ~(pc[w] = "dead" /\ Stuck /\ f[w] \in processing /\ unfinished_tasks > 0)

\* ------------------------------------------------------------------------
\* Wake-ups: the WorkItems with worker threads that are scheduled fairly
\* ------------------------------------------------------------------------
\* the loop of a worker thread on the WorkItems: get, then task_done
HWorker(self) == HGet(self) \/ HGetBlock1(self) \/ HGetBlock2(self) \/ HTaskDone(self)

InitWake == InitAcct

NextWake == HPutOne \/ \E self \in Workers : HWorker(self)

SpecWake == InitWake /\ [][NextWake]_vars

\* every worker thread that can take a step eventually does; the threads
\* that put are free to stop
FairSpecWake == SpecWake /\ \A self \in Workers : WF_vars(HWorker(self))

\* tile t is in data and not in processing while a worker waits in get
PendingWhileBlocked(t) ==
    /\ t \in DOMAIN data
    /\ t \notin processing
    /\ \E w \in Workers : pc[w] = "wait"

\* C16: whenever a tile is in data and not in processing while a worker is
\* blocked in get, a worker eventually claims the tile (the tile enters
\* processing), under fair scheduling of the threads.
C16_NoLostWakeup ==
    \A t \in HTiles : PendingWhileBlocked(t) ~> (t \in processing)

\* a tile is in data and free, with a worker waiting in get and no worker
\* woken: the tile was put while it was in processing, the notify of that
\* put is spent and the task_done that freed the tile notified no worker
C16_Witness ==
    \E t \in HTiles :
        /\ PendingWhileBlocked(t)
        /\ \A w \in Workers : pc[w] # "woken"

\* ------------------------------------------------------------------------
\* Ownership of the stored surfaces (the concurrent driver, Spec)
\* ------------------------------------------------------------------------
\* C17: the driver's get_pixel_color never reads the file of a tile a worker
\* holds (the tile is not in processing when it is read), the read does not
\* fail, and the from_color it returns is the color the seed pixel had
\* before any fill started.
C17_ExclusiveSurface ==
    [][(dpc = "read" /\ dpc' # "read") =>
          /\ fills[di][1] \notin processing
          /\ dpc' = "put"
          /\ dfrom' = SeedColor(scn, di)]_vars

\* ------------------------------------------------------------------------
\* The two drivers compared
\* ------------------------------------------------------------------------
\* world_fill as a function: the opened surfaces when the work stack is
\* empty, from the stack q and the surfaces m of scenario s
RECURSIVE world_fill_loop(_, _, _)
world_fill_loop(q, m, s) ==
    IF q = << >> THEN m
    ELSE LET work == q[Len(q)]
             t    == work[1]
             img  == IF t \in DOMAIN m THEN m[t] ELSE Scenarios[s].world[t]
             r    == tile_fill(img, work[2], work[3], work[4])
             fu   == follow_ups(r.edges, t[1], t[2], work[3], work[4],
                                Scenarios[s].fw, Scenarios[s].fh, W, H)
         IN  world_fill_loop(SubSeq(q, 1, Len(q) - 1) \o appended(fu),
                             MapSet(m, t, r.pixels), s)

\* the stored surfaces when world_fill returns, for the scenarios it returns
\* on
world_fill ==
    [s \in 1..Len(Scenarios) |->
        IF ~RealFills(s) THEN Scenarios[s].world
        ELSE LET fl == Scenarios[s].fills
                 q  == [i \in 1..Len(fl) |->
                          <<fl[i][1], {fl[i][2]},
                            get_pixel_color(Scenarios[s].world, fl[i][1], fl[i][2]), fl[i][3]>>]
                 m  == world_fill_loop(q, EmptyMap, s)
             IN  [t \in DOMAIN Scenarios[s].world |->
                    IF t \in DOMAIN m THEN m[t] ELSE Scenarios[s].world[t]]]

\* C18: on the same world and the same list of fills, whenever either driver
\* has returned the stored surfaces are those world_fill leaves, also when
\* the regions of the fills overlap or their colors chain.
C18_Interchangeable ==
    (dpc = "done" /\ RealFills(scn)) => tiles = world_fill[scn]

\* ------------------------------------------------------------------------
\* Completeness across tiles
\* ------------------------------------------------------------------------
\* C19: when a driver has returned from a single fill with a color other
\* than its seed's, the pixels of the 8-connected seed-colored component of
\* the seed in the recombined world have the new color, and no other pixel
\* changed: no pixel of the old color is left next to a changed pixel across
\* a tile border.
C19_WholeComponent ==
    (dpc = "done" /\ Len(fills) = 1 /\ RealFills(scn)) =>
        \A q \in WorldPixels(scn) :
            At(tiles, q) = IF q \in Region[scn][1] THEN ToColor(scn, 1)
                           ELSE At(Scenarios[scn].world, q)

\* ------------------------------------------------------------------------
\* Updates of a tile's stored surface
\* ------------------------------------------------------------------------
\* C20: whenever no worker has a tile's surface loaded, the stored surface
\* is the one the last tile_fill of that tile left, so a worker that claims
\* the tile and opens its surface finds every earlier write; a worker that
\* has the surface loaded has the tile alone and its copy holds every
\* earlier write and its own.  No save puts back an older surface.
C20_NoLostUpdate ==
    mode = "conc" =>
        \A t \in Grid(fw, fh) :
            LET loaded == {w \in Workers : f[w] = t /\ im[w] # NoImage}
            IN  /\ Cardinality(loaded) <= 1
                /\ \A w \in loaded : Holding(w) /\ im[w] = latest[t]
                /\ loaded = {} => tiles[t] = latest[t]

\* a worker that claimed a tile processed before has changed, in its own
\* copy, pixels of the surface the earlier processing stored, and is about
\* to save
C20_Witness ==
    /\ mode = "conc"
    /\ \E w \in Workers :
          /\ pc[w] = "save"
          /\ tiles[f[w]] # Scenarios[scn].world[f[w]]
          /\ im[w] # tiles[f[w]]
          /\ \A p \in Pos : tiles[f[w]][p] # Scenarios[scn].world[f[w]][p]
                               => im[w][p] = tiles[f[w]][p]

\* ------------------------------------------------------------------------
\* The counter of the WorkItems (SpecWI)
\* ------------------------------------------------------------------------
\* C21: under every interleaving of put, get and task_done, task_done being
\* called only by the worker that got the tile, unfinished_tasks is the
\* number of tiles in data plus the number of tiles in processing, and is
\* never negative; a tile that is in processing and is put again is in both
\* and counts twice.
C21_CounterInvariant ==
    mode = "harness" =>
        /\ unfinished_tasks = Cardinality(DOMAIN data) + Cardinality(processing)
        /\ unfinished_tasks >= 0

\* a tile was put while a worker held it: it is in data and in processing,
\* and the counter is above the number of distinct outstanding tiles
C21_Witness ==
    /\ mode = "harness"
    /\ \E t \in HTiles : t \in DOMAIN data /\ t \in processing
    /\ unfinished_tasks > Cardinality((DOMAIN data) \cup processing)

====
